---- MODULE Spec2Model ----
(***************************************************************************)
(* Model of lm_proxy.py: the LM-Studio -> LiteLLM compatibility proxy.     *)
(*                                                                         *)
(* Text is modelled as a sequence of tokens (a token is a TLA+ string), so *)
(* that prefix tests, stripping, JSON parsing and JSON serialisation are   *)
(* computed, not assumed.  Python dicts are functions with a string        *)
(* domain; a key is present iff it is in the DOMAIN.                       *)
(***************************************************************************)
EXTENDS Integers, Sequences, FiniteSets, TLC

(* ------------------------------ bounds --------------------------------- *)

\* longest backend line sequence that one relay reads
MaxLines == 3

\* longest inbound `messages` list of a chat request
MaxMsgs == 2

(* ------------------------- text and JSON helpers ----------------------- *)

\* characters removed by str.strip()
Whitespace == {" ", "\t"}

RECURSIVE LStrip(_)
LStrip(s) ==
    IF s # <<>> /\ Head(s) \in Whitespace THEN LStrip(Tail(s)) ELSE s

RECURSIVE RStrip(_)
RStrip(s) ==
    IF s # <<>> /\ s[Len(s)] \in Whitespace
    THEN RStrip(SubSeq(s, 1, Len(s) - 1))
    ELSE s

\* str.strip()
Strip(s) == RStrip(LStrip(s))

\* str.startswith("data:")
StartsWithData(line) == Len(line) >= 1 /\ line[1] = "data:"

\* JSON scalar literals of the model and the Python value each decodes to.
\* A value is a record tagged by its type; a scalar carries the text that
\* json.dumps writes for it (1e2 decodes to the float 100.0).
ScalarTokens == {"1", "1e2", "100.0", "null", "true", "\"x\"", "\"b\"",
                 "\"id\"", "\"system_fingerprint\"", "\"proxy_fingerprint\""}

StringTokens == {"\"x\"", "\"b\"", "\"id\"", "\"system_fingerprint\"",
                 "\"proxy_fingerprint\""}

ScalarOf(tok) ==
    CASE tok = "1"    -> [t |-> "num",  v |-> "1"]
      [] tok = "1e2"  -> [t |-> "num",  v |-> "100.0"]
      [] tok = "100.0" -> [t |-> "num", v |-> "100.0"]
      [] tok = "null" -> [t |-> "null", v |-> "null"]
      [] tok = "true" -> [t |-> "bool", v |-> "true"]
      [] OTHER        -> [t |-> "str",  v |-> tok]

JsonArray(items) == [t |-> "arr", items |-> items]
JsonObject(members) == [t |-> "obj", members |-> members]

\* dict.__contains__ / dict.__getitem__ / dict.__setitem__ on an object
\* whose members are kept in insertion order, as a Python dict keeps them.
HasKey(members, k) == \E i \in 1..Len(members) : members[i].k = k

GetItem(members, k) ==
    members[CHOOSE i \in 1..Len(members) : members[i].k = k].v

SetItem(members, k, val) ==
    IF HasKey(members, k)
    THEN [i \in 1..Len(members) |->
            IF members[i].k = k THEN [k |-> k, v |-> val] ELSE members[i]]
    ELSE Append(members, [k |-> k, v |-> val])

ParseFail == [ok |-> FALSE]

\* Recursive-descent JSON parser over a token sequence without whitespace.
\* Returns [ok, val, rest].
RECURSIVE ParseValue(_), ParseItems(_, _), ParseMembers(_, _)
ParseValue(ts) ==
    IF ts = <<>> THEN ParseFail
    ELSE IF Head(ts) \in ScalarTokens
    THEN [ok |-> TRUE, val |-> ScalarOf(Head(ts)), rest |-> Tail(ts)]
    ELSE IF Head(ts) = "["
    THEN IF Len(ts) >= 2 /\ ts[2] = "]"
         THEN [ok |-> TRUE, val |-> JsonArray(<<>>), rest |-> Tail(Tail(ts))]
         ELSE ParseItems(Tail(ts), <<>>)
    ELSE IF Head(ts) = "{"
    THEN IF Len(ts) >= 2 /\ ts[2] = "}"
         THEN [ok |-> TRUE, val |-> JsonObject(<<>>), rest |-> Tail(Tail(ts))]
         ELSE ParseMembers(Tail(ts), <<>>)
    ELSE ParseFail

ParseItems(ts, acc) ==
    LET r == ParseValue(ts) IN
    IF ~r.ok \/ r.rest = <<>> THEN ParseFail
    ELSE IF Head(r.rest) = ","
    THEN ParseItems(Tail(r.rest), Append(acc, r.val))
    ELSE IF Head(r.rest) = "]"
    THEN [ok |-> TRUE, val |-> JsonArray(Append(acc, r.val)),
          rest |-> Tail(r.rest)]
    ELSE ParseFail

ParseMembers(ts, acc) ==
    IF Len(ts) < 3 \/ ts[1] \notin StringTokens \/ ts[2] # ":" THEN ParseFail
    ELSE LET r == ParseValue(Tail(Tail(ts))) IN
         IF ~r.ok \/ r.rest = <<>> THEN ParseFail
         ELSE IF Head(r.rest) = ","
         THEN ParseMembers(Tail(r.rest), SetItem(acc, ts[1], r.val))
         ELSE IF Head(r.rest) = "}"
         THEN [ok |-> TRUE, val |-> JsonObject(SetItem(acc, ts[1], r.val)),
               rest |-> Tail(r.rest)]
         ELSE ParseFail

\* json.loads: whitespace between tokens is skipped, trailing text is an
\* error (JSONDecodeError is ok = FALSE).
JsonLoads(text) ==
    LET r == ParseValue(SelectSeq(text, LAMBDA tok : tok \notin Whitespace)) IN
    IF r.ok /\ r.rest = <<>> THEN [ok |-> TRUE, val |-> r.val] ELSE ParseFail

\* json.dumps with the default separators (", " and ": ").
RECURSIVE JsonDumps(_), DumpItems(_), DumpMembers(_)
JsonDumps(val) ==
    IF val.t = "arr" THEN <<"[">> \o DumpItems(val.items) \o <<"]">>
    ELSE IF val.t = "obj" THEN <<"{">> \o DumpMembers(val.members) \o <<"}">>
    ELSE <<val.v>>

DumpItems(items) ==
    IF items = <<>> THEN <<>>
    ELSE IF Len(items) = 1 THEN JsonDumps(items[1])
    ELSE JsonDumps(items[1]) \o <<",", " ">> \o DumpItems(Tail(items))

DumpMembers(members) ==
    IF members = <<>> THEN <<>>
    ELSE LET first == <<members[1].k, ":", " ">> \o JsonDumps(members[1].v) IN
         IF Len(members) = 1 THEN first
         ELSE first \o <<",", " ">> \o DumpMembers(Tail(members))

(* ----------------------------- stream relay ---------------------------- *)

DoneChunk == <<"data:", " ", "[DONE]", "\n", "\n">>

ProxyFingerprint == ScalarOf("\"proxy_fingerprint\"")

process_and_modify_json_line_NoInject(line) ==
    LET json_payload == Strip(Tail(line))
        parsed == JsonLoads(json_payload)
    IN  IF json_payload = <<"[DONE]">>
        THEN [raised |-> FALSE, chunk |-> DoneChunk]
        ELSE IF ~parsed.ok
        THEN [raised |-> FALSE, chunk |-> line \o <<"\n", "\n">>]
        ELSE IF parsed.val.t # "obj"
        THEN [raised |-> TRUE, exc |-> "TypeError"]
        ELSE [raised |-> FALSE,
              chunk |-> <<"data:", " ">> \o JsonDumps(parsed.val)
                            \o <<"\n", "\n">>]

\* _process_and_modify_json_line: returns the chunk, or raises.
process_and_modify_json_line(line) ==
    LET json_payload == Strip(Tail(line))
        parsed == JsonLoads(json_payload)
    IN  IF json_payload = <<"[DONE]">>
        THEN [raised |-> FALSE, chunk |-> DoneChunk]
        ELSE IF ~parsed.ok
        THEN [raised |-> FALSE, chunk |-> line \o <<"\n", "\n">>]
        ELSE IF parsed.val.t # "obj"
        THEN [raised |-> TRUE, exc |-> "TypeError"]
        ELSE LET data_obj == JsonObject(SetItem(parsed.val.members,
                                 "\"system_fingerprint\"", ProxyFingerprint))
             IN  [raised |-> FALSE,
                  chunk |-> <<"data:", " ">> \o JsonDumps(data_obj)
                                \o <<"\n", "\n">>]

\* body of the relay loop for one line (lines 123-126)
RewriteLine(line) ==
    IF ~StartsWithData(line)
    THEN [raised |-> FALSE, chunk |-> line \o <<"\n">>]
    ELSE process_and_modify_json_line(line)

\* lines the backend may deliver
Lines ==
    { <<"data:", " ", "[DONE]">>,
      <<"data:", "[DONE]", "\t">>,
      <<" ", "data:", " ", "[DONE]">>,
      <<":", " ", "keep-alive">>,
      <<>>,
      <<"data:", " ", "not-json">>,
      <<"data:">>,
      <<"data:", " ", "{", "\"id\"", ":", "\"x\"", "}">>,
      <<"data:", "{", "\"system_fingerprint\"", ":", " ", "\"b\"", ",",
        "\"b\"", ":", "1e2", ",", "\"id\"", ":", "true", ",",
        "\"id\"", ":", "[", "1", ",", "null", "]", "}", " ">>,
      <<"data:", " ", "{", "}">>,
      <<"data:", " ", "{", "\"id\"", ":", "\"x\"">>,
      <<"data:", " ", "[", "1", "]">>,
      <<"data:", " ", "1">>,
      <<"data:", " ", "null">>,
      <<"data:", " ", "\"x\"">> }

\* status codes of the backend response
Statuses == {200, 404, 503}

\* httpx.Response.raise_for_status raises HTTPStatusError
IsErrorStatus(code) == code >= 400


(* -------------------- message normalizer and translator ---------------- *)

\* dict.get(key, default)
Get(d, key, default) == IF key \in DOMAIN d THEN d[key] ELSE default

\* `sub in s` for strings
Contains(s, sub) ==
    \E i \in 0..(Len(s) - Len(sub)) : SubSeq(s, i + 1, i + Len(sub)) = sub

\* "This is a system message."
Marker == <<"This", "is", "a", "system", "message.">>

\* "Please continue."
PleaseContinue == <<"Please", "continue.">>

\* del message[key]
DelKey(d, key) == [k \in DOMAIN d \ {key} |-> d[k]]

tidy_message_AndForOr(original_) ==
    LET message_ == original_
        stripped == IF "tool_calls" \in DOMAIN message_
                       /\ (message_["role"] # "assistant"
                           /\ message_["tool_calls"] = <<>>)
                    THEN DelKey(message_, "tool_calls")
                    ELSE message_
    IN  IF stripped["role"] = "user"
           /\ Contains(Get(stripped, "content", <<>>), Marker)
        THEN [stripped EXCEPT !["role"] = "system"]
        ELSE stripped

tidy_message_AnyRole(original_) ==
    LET message_ == original_
        stripped == IF "tool_calls" \in DOMAIN message_
                       /\ (message_["role"] # "assistant"
                           \/ message_["tool_calls"] = <<>>)
                    THEN DelKey(message_, "tool_calls")
                    ELSE message_
    IN  IF Contains(Get(stripped, "content", <<>>), Marker)
        THEN [stripped EXCEPT !["role"] = "system"]
        ELSE stripped

deepcopy_Alias(heap, ref) == [heap |-> heap, ref |-> ref]

\* copy.deepcopy: the heap is a sequence of objects, a reference is an
\* index into it; the copy is a new object with an equal value
deepcopy(heap, ref) == [heap |-> Append(heap, heap[ref]), ref |-> Len(heap) + 1]

\* tidy_message on a heap that holds the argument as object 1: `del` and the
\* item assignment change the object `message` refers to.  Returns the value
\* returned and the value of the argument object after the call.
tidy_message_call(original_) ==
    LET copied == deepcopy(<<original_>>, 1)
        message_ == copied.ref
        stripped == IF "tool_calls" \in DOMAIN copied.heap[message_]
                       /\ (copied.heap[message_]["role"] # "assistant"
                           \/ copied.heap[message_]["tool_calls"] = <<>>)
                    THEN [copied.heap EXCEPT
                             ![message_] = DelKey(@, "tool_calls")]
                    ELSE copied.heap
        renamed == IF stripped[message_]["role"] = "user"
                      /\ Contains(Get(stripped[message_], "content", <<>>),
                                  Marker)
                   THEN [stripped EXCEPT
                            ![message_] = [@ EXCEPT !["role"] = "system"]]
                   ELSE stripped
    IN  [returned |-> renamed[message_], argument |-> renamed[1]]

\* tidy_message: works on a deep copy, returns the copy
tidy_message(original_) == tidy_message_call(original_).returned

ContinueMessage == [role |-> "user", content |-> PleaseContinue]

PadMessages_NoEmptyCheck(processed_messages) ==
    LET all_system_messages ==
            \A i \in 1..Len(processed_messages) :
                Get(processed_messages[i], "role", "None") = "system"
    IN  IF all_system_messages
        THEN Append(processed_messages, ContinueMessage)
        ELSE processed_messages

PadMessages_Never(processed_messages) == processed_messages

\* lines 99-102
PadMessages(processed_messages) ==
    LET all_system_messages ==
            \A i \in 1..Len(processed_messages) :
                Get(processed_messages[i], "role", "None") = "system"
    IN  IF all_system_messages /\ processed_messages # <<>>
        THEN Append(processed_messages, ContinueMessage)
        ELSE processed_messages

OptionalKeys_ForwardAll(request, tools, max_tokens) ==
    (IF "tools" \in DOMAIN request THEN {"tools"} ELSE {})
        \cup (IF "max_tokens" \in DOMAIN request THEN {"max_tokens"} ELSE {})

\* lines 107 and 109: the conditional entries of the returned dict
OptionalKeys(request, tools, max_tokens) ==
    (IF tools # <<>> THEN {"tools"} ELSE {})
        \cup (IF "max_tokens" \in DOMAIN request /\ max_tokens # -1
              THEN {"max_tokens"} ELSE {})

\* _prepare_openai_chat_request_body: returns the body, or raises KeyError
prepare_openai_chat_request_body(request) ==
    IF "max_tokens" \notin DOMAIN request
    THEN [raised |-> TRUE, exc |-> "KeyError"]
    ELSE
    LET max_tokens == request["max_tokens"]
        tools == Get(request, "tools", <<>>)
        messages == Get(request, "messages", <<>>)
        processed_messages ==
            PadMessages([i \in 1..Len(messages) |-> tidy_message(messages[i])])
        keys == {"model", "stream", "messages"}
                    \cup OptionalKeys(request, tools, max_tokens)
    IN  IF "model" \notin DOMAIN request
        THEN [raised |-> TRUE, exc |-> "KeyError"]
        ELSE [raised |-> FALSE,
              body |-> [k \in keys |->
                  CASE k = "model"      -> request["model"]
                    [] k = "stream"     -> Get(request, "stream", FALSE)
                    [] k = "tools"      -> tools
                    [] k = "messages"   -> processed_messages
                    [] k = "max_tokens" -> max_tokens]]

\* the inbound request after _prepare_openai_chat_request_body: line 98
\* hands each message object of the request to tidy_message and collects
\* the results in a new list, to which line 102 appends
request_after_prepare(request) ==
    IF "max_tokens" \in DOMAIN request /\ "messages" \in DOMAIN request
    THEN [request EXCEPT !["messages"] =
            [i \in 1..Len(@) |-> tidy_message_call(@[i]).argument]]
    ELSE request

Roles == {"system", "user", "assistant", "tool"}

ToolCallLists == { <<>>, <<[id |-> "call_1"]>>,
                   <<[id |-> "call_1"]>> \o <<[id |-> "call_2"]>> }

Contents == { <<>>, <<"Hi">>, Marker, <<"Note:">> \o Marker \o <<"Go">>,
              <<"This", "is", "a", "message.">> }

\* a message dict; has_content / has_tool_calls say which keys it carries
MakeMessage(role, has_content, content, has_tool_calls, tool_calls) ==
    [k \in {"role"} \cup (IF has_content THEN {"content"} ELSE {})
                    \cup (IF has_tool_calls THEN {"tool_calls"} ELSE {}) |->
        CASE k = "role"       -> role
          [] k = "content"    -> content
          [] k = "tool_calls" -> tool_calls]

\* chat messages given to tidy_message
Messages ==
    { MakeMessage(r, hc, c, ht, tc) :
        r \in Roles, hc \in BOOLEAN, c \in Contents,
        ht \in BOOLEAN, tc \in ToolCallLists }

\* chat messages of an inbound request
RequestMessages ==
    { MakeMessage("system", TRUE, <<"Hi">>, FALSE, <<>>),
      MakeMessage("system", TRUE, Marker, TRUE, <<>>),
      MakeMessage("user", TRUE, <<"Hi">>, FALSE, <<>>),
      MakeMessage("user", TRUE, <<"Note:">> \o Marker \o <<"Go">>,
                  TRUE, <<[id |-> "call_1"]>>),
      MakeMessage("assistant", TRUE, <<>>, TRUE, <<[id |-> "call_1"]>>),
      MakeMessage("tool", TRUE, <<"Hi">>, FALSE, <<>>) }

RECURSIVE SeqsUpTo(_, _)
SeqsUpTo(S, n) ==
    IF n = 0 THEN {<<>>}
    ELSE LET shorter == SeqsUpTo(S, n - 1) IN
         shorter \cup {Append(s, x) : s \in shorter, x \in S}

\* a request dict carrying the keys in `keys`
MakeRequest(keys, messages, max_tokens, tools, stream) ==
    [k \in keys |->
        CASE k = "model"       -> "m1"
          [] k = "messages"    -> messages
          [] k = "max_tokens"  -> max_tokens
          [] k = "tools"       -> tools
          [] k = "stream"      -> stream
          [] k = "temperature" -> "0.7"]

RequestKeys ==
    {"model", "messages", "max_tokens", "tools", "stream", "temperature"}

\* inbound chat requests (parsed JSON bodies)
Requests ==
    { MakeRequest(keys, ms, mt, tl, st) :
        keys \in SUBSET RequestKeys,
        ms \in SeqsUpTo(RequestMessages, MaxMsgs),
        mt \in {-1, 256},
        tl \in {<<>>, <<[type |-> "function"]>>},
        st \in BOOLEAN }

(* -------------------------------- state -------------------------------- *)

VARIABLES
    pc,        \* position of the relay generator
    handle,    \* backend response handle: "none", "open", "closed"
    status,    \* status code of the backend response, 0 before it is known
    lines,     \* lines read from response.aiter_lines() so far
    out,       \* chunks yielded to the consumer so far
    exc,       \* exception caught at line 128, "none" if none
    failure,   \* status code of the HTTPException raised, 0 if none
    tpc,       \* position of a tidy_message / translator call
    original,  \* argument of tidy_message
    message,   \* value returned by tidy_message
    lmstudio_request,  \* argument of _prepare_openai_chat_request_body
    result,    \* its outcome: the body returned or the exception raised
    inbound_body,  \* inbound HTTP body of POST /api/v0/chat/completions
    response,  \* what the chat-completions handler answered
    backend_reply,    \* what the backend answers to GET /v1/models
    models_response,  \* what GET /api/v0/models answered
    relays     \* the relays of the requests in flight, one record each

relayVars == <<pc, handle, status, lines, out, exc, failure>>
otherVars == <<inbound_body, response, backend_reply, models_response, relays>>
callVars == <<tpc, original, message, lmstudio_request, result,
              inbound_body, response, backend_reply, models_response, relays>>
vars == <<pc, handle, status, lines, out, exc, failure,
          tpc, original, message, lmstudio_request, result,
          inbound_body, response, backend_reply, models_response, relays>>

NoValue == [none |-> TRUE]

RelayIdle(at) ==
    /\ pc = at
    /\ handle = "none"
    /\ status = 0
    /\ lines = <<>>
    /\ out = <<>>
    /\ exc = "none"
    /\ failure = 0

\* no handler call and no second request
OtherIdle ==
    /\ inbound_body = NoValue
    /\ response = NoValue
    /\ backend_reply = NoValue
    /\ models_response = NoValue
    /\ relays = <<>>

Init ==
    /\ RelayIdle("start")
    /\ tpc = "idle"
    /\ original = NoValue
    /\ message = NoValue
    /\ lmstudio_request = NoValue
    /\ result = NoValue
    /\ OtherIdle

(* ----------------------------- stream relay ---------------------------- *)

Release_Leak(h) == h

\* __aexit__ of `async with litellm_response_stream`
Release(h) == IF h = "open" THEN "closed" ELSE h

StatusCodeFor_Always500(e, code) == 500

\* line 129
StatusCodeFor(e, code) == IF e = "HTTPStatusError" THEN code ELSE 500

Caught_BaseException(e) == TRUE

\* line 128: `except Exception` catches neither GeneratorExit nor
\* CancelledError, which derive from BaseException only
Caught(e) == e \notin {"GeneratorExit", "CancelledError"}

\* lines 128-132: the exception leaves the `async with` block, is caught
\* and re-raised as HTTPException
Fail(e) ==
    /\ handle' = Release(handle)
    /\ exc' = e
    /\ failure' = StatusCodeFor(e, status)
    /\ pc' = "failed"

\* line 120, first pull: the request is sent and the response received
Enter ==
    /\ pc = "start"
    /\ \E code \in Statuses : status' = code
    /\ handle' = "open"
    /\ pc' = "entered"
    /\ UNCHANGED <<lines, out, exc, failure>>
    /\ UNCHANGED callVars

\* line 120: the request cannot be sent (httpx.RequestError)
EnterFails ==
    /\ pc = "start"
    /\ Fail("ConnectError")
    /\ UNCHANGED <<status, lines, out>>
    /\ UNCHANGED callVars

\* line 121
RaiseForStatus ==
    /\ pc = "entered"
    /\ IF IsErrorStatus(status)
       THEN Fail("HTTPStatusError")
       ELSE /\ pc' = "reading"
            /\ UNCHANGED <<handle, exc, failure>>
    /\ UNCHANGED <<status, lines, out>>
    /\ UNCHANGED callVars

\* line 122: the backend delivers the next line
NextLine ==
    /\ pc = "reading"
    /\ Len(lines) < MaxLines
    /\ \E line \in Lines : lines' = Append(lines, line)
    /\ pc' = "gotLine"
    /\ UNCHANGED <<handle, status, out, exc, failure>>
    /\ UNCHANGED callVars

Emit_Reordered(chunks, chunk) == <<chunk>> \o chunks

\* `yield` hands one chunk to the consumer
Emit(chunks, chunk) == Append(chunks, chunk)

\* lines 123-126: rewrite the line and yield it, or raise
YieldChunk ==
    /\ pc = "gotLine"
    /\ LET r == RewriteLine(lines[Len(lines)]) IN
       IF r.raised
       THEN /\ Fail(r.exc)
            /\ UNCHANGED <<status, lines, out>>
       ELSE /\ out' = Emit(out, r.chunk)
            /\ pc' = "yielded"
            /\ UNCHANGED <<handle, status, lines, exc, failure>>
    /\ UNCHANGED callVars

\* the consumer asks for the next chunk
Pull ==
    /\ pc = "yielded"
    /\ pc' = "reading"
    /\ UNCHANGED <<handle, status, lines, out, exc, failure>>
    /\ UNCHANGED callVars

\* line 122: aiter_lines() is exhausted; line 127
EndOfStream ==
    /\ pc = "reading"
    /\ handle' = Release(handle)
    /\ pc' = "done"
    /\ UNCHANGED <<status, lines, out, exc, failure>>
    /\ UNCHANGED callVars

\* line 122: aiter_lines() raises (httpx.ReadError, ...)
StreamRaises ==
    /\ pc = "reading"
    /\ Fail("StreamError")
    /\ UNCHANGED <<status, lines, out>>
    /\ UNCHANGED callVars

\* The consumer closes the generator (GeneratorExit at the yield) or the
\* task is cancelled while awaiting the next line (CancelledError); neither
\* is an Exception, so line 128 does not catch it.
ClientDisconnect ==
    /\ pc \in {"start", "reading", "yielded"}
    /\ IF Caught("GeneratorExit")
       THEN /\ Fail("GeneratorExit")
            /\ UNCHANGED <<status, lines, out>>
       ELSE /\ handle' = Release(handle)
            /\ pc' = "cancelled"
            /\ UNCHANGED <<status, lines, out, exc, failure>>
    /\ UNCHANGED callVars

Next ==
    \/ Enter
    \/ EnterFails
    \/ RaiseForStatus
    \/ NextLine
    \/ YieldChunk
    \/ Pull
    \/ EndOfStream
    \/ StreamRaises
    \/ ClientDisconnect

\* one relay: _stream_litellm_response_to_client pulled by its consumer
Spec == Init /\ [][Next]_vars

\* a relay whose backend answers and raises nothing and whose consumer
\* keeps pulling
NextLive ==
    \/ Enter
    \/ RaiseForStatus
    \/ NextLine
    \/ YieldChunk
    \/ Pull
    \/ EndOfStream

\* the event loop resumes a generator that can go on, and the backend
\* stream delivers a line or ends
SpecLive == Init /\ [][NextLive]_vars /\ WF_vars(NextLive)

(* ------------------------- calls of the pure parts --------------------- *)

InitTidy ==
    /\ RelayIdle("idle")
    /\ tpc = "call"
    /\ original \in Messages
    /\ message = NoValue
    /\ lmstudio_request = NoValue
    /\ result = NoValue
    /\ OtherIdle

\* message = tidy_message(original)
TidyMessage ==
    /\ tpc = "call"
    /\ "role" \in DOMAIN original
    /\ message' = tidy_message(original)
    /\ original' = tidy_message_call(original).argument
    /\ tpc' = "return"
    /\ UNCHANGED <<lmstudio_request, result>>
    /\ UNCHANGED relayVars
    /\ UNCHANGED otherVars

NextTidy == TidyMessage

SpecTidy == InitTidy /\ [][NextTidy]_vars

InitTranslate ==
    /\ RelayIdle("idle")
    /\ tpc = "call"
    /\ original = NoValue
    /\ message = NoValue
    /\ lmstudio_request \in Requests
    /\ result = NoValue
    /\ OtherIdle

\* result = _prepare_openai_chat_request_body(lmstudio_request)
PrepareBody ==
    /\ tpc = "call"
    /\ "none" \notin DOMAIN lmstudio_request
    /\ result' = prepare_openai_chat_request_body(lmstudio_request)
    /\ lmstudio_request' = request_after_prepare(lmstudio_request)
    /\ tpc' = "return"
    /\ UNCHANGED <<original, message>>
    /\ UNCHANGED relayVars
    /\ UNCHANGED otherVars

NextTranslate == PrepareBody

SpecTranslate == InitTranslate /\ [][NextTranslate]_vars

InitCalls == InitTidy \/ InitTranslate

NextCalls == TidyMessage \/ PrepareBody

\* one call of tidy_message or one call of the translator
SpecCalls == InitCalls /\ [][NextCalls]_vars

(* ----------------------------- model listing --------------------------- *)

\* longest model collection the backend reports
MaxModels == 2

\* line 14, the default of the environment variable
DEFAULT_LITELLM_MODEL_ALIAS == "groq-llama4-scout"

\* a backend model entry carrying the keys in `keys`
MakeModel(keys, id, owned_by) ==
    [k \in keys |->
        CASE k = "id"       -> id
          [] k = "owned_by" -> owned_by
          [] k = "created"  -> "1700000000"]

BackendModels ==
    { MakeModel(keys, id, "acme") :
        keys \in SUBSET {"id", "owned_by", "created"}, id \in {"m1", "m2"} }

\* an answer of the backend to GET /v1/models: whether a response arrives,
\* its status code, what response.json() makes of its text ("malformed":
\* not JSON, "not_object": JSON but no dict, "object": a dict), and the
\* `data` entry of that dict if it has one
MakeReply(reachable, code, json, has_data, data) ==
    [reachable |-> reachable, code |-> code, json |-> json,
     has_data |-> has_data, data |-> data]

BackendReplies ==
    {MakeReply(FALSE, 0, "malformed", FALSE, <<>>)}
    \cup {MakeReply(TRUE, code, "object", FALSE, <<>>) :
            code \in {c \in Statuses : IsErrorStatus(c)}}
    \cup {MakeReply(TRUE, 200, json, FALSE, <<>>) :
            json \in {"malformed", "not_object", "object"}}
    \cup {MakeReply(TRUE, 200, "object", TRUE, data) :
            data \in SeqsUpTo(BackendModels, MaxModels)}

\* line 55
FetchStatusCode(e) ==
    IF e \in {"RequestError", "JSONDecodeError"} THEN 502 ELSE 500

\* lines 54-58
FetchFailure(e) ==
    [raised |-> TRUE, status_code |-> FetchStatusCode(e),
     detail |-> <<"An error occurred while fetching models from LiteLLM:", e>>]

\* _fetch_models_from_litellm: returns the models, or raises HTTPException
fetch_models_from_litellm(reply) ==
    IF ~reply.reachable THEN FetchFailure("RequestError")
    ELSE IF IsErrorStatus(reply.code) THEN FetchFailure("HTTPStatusError")
    ELSE IF reply.json = "malformed" THEN FetchFailure("JSONDecodeError")
    ELSE IF reply.json = "not_object" THEN FetchFailure("AttributeError")
    ELSE LET models == IF reply.has_data THEN reply.data ELSE <<>> IN
         IF models = <<>> THEN FetchFailure("ValueError")
         ELSE [raised |-> FALSE, models |-> models]

transform_litellm_model_to_lmstudio_format_NoFallback(model) ==
    [id |-> Get(model, "id", DEFAULT_LITELLM_MODEL_ALIAS),
     object |-> "model",
     type |-> "chat",
     publisher |-> Get(model, "owned_by", Get(model, "id", "None")),
     arch |-> "unknown",
     compatibility_type |-> "openai",
     quantization |-> "unknown",
     state |-> "loaded",
     max_context_length |-> 32768]

\* _transform_litellm_model_to_lmstudio_format
transform_litellm_model_to_lmstudio_format(model) ==
    [id |-> Get(model, "id", DEFAULT_LITELLM_MODEL_ALIAS),
     object |-> "model",
     type |-> "chat",
     publisher |-> Get(model, "owned_by", "litellm-proxied"),
     arch |-> "unknown",
     compatibility_type |-> "openai",
     quantization |-> "unknown",
     state |-> "loaded",
     max_context_length |-> 32768]

\* get_lmstudio_models_v0: the JSON response, or the HTTPException of the
\* fetch passed on
get_lmstudio_models_v0(reply) ==
    LET fetched == fetch_models_from_litellm(reply) IN
    IF fetched.raised
    THEN [status |-> fetched.status_code, detail |-> fetched.detail]
    ELSE [status |-> 200,
          content |-> [object |-> "list",
                       data |-> [i \in 1..Len(fetched.models) |->
                           transform_litellm_model_to_lmstudio_format(
                               fetched.models[i])]]]

InitModels ==
    /\ RelayIdle("idle")
    /\ tpc = "call"
    /\ original = NoValue
    /\ message = NoValue
    /\ lmstudio_request = NoValue
    /\ result = NoValue
    /\ inbound_body = NoValue
    /\ response = NoValue
    /\ backend_reply \in BackendReplies
    /\ models_response = NoValue
    /\ relays = <<>>

\* GET /api/v0/models
GetModels ==
    /\ tpc = "call"
    /\ models_response' = get_lmstudio_models_v0(backend_reply)
    /\ tpc' = "return"
    /\ UNCHANGED <<original, message, lmstudio_request, result>>
    /\ UNCHANGED <<inbound_body, response, backend_reply, relays>>
    /\ UNCHANGED relayVars

NextModels == GetModels

SpecModels == InitModels /\ [][NextModels]_vars

(* ------------------------ chat-completions handler --------------------- *)

\* an inbound HTTP body: what request.json() makes of its text
\* ("malformed": not JSON, "not_object": JSON but no dict, "object": the
\* dict `value`)
BodiesOf(requests) ==
    {[json |-> "malformed", value |-> NoValue],
     [json |-> "not_object", value |-> NoValue]}
    \cup {[json |-> "object", value |-> r] : r \in requests}

\* requests of the handler runs that go on to relay
HandlerRequests ==
    { MakeRequest({"model", "messages", "max_tokens", "stream"},
                  <<MakeMessage("system", TRUE, <<"Hi">>, FALSE, <<>>)>>,
                  256, <<>>, TRUE),
      MakeRequest({"model", "messages", "stream"},
                  <<MakeMessage("user", TRUE, <<"Hi">>, FALSE, <<>>)>>,
                  256, <<>>, TRUE),
      MakeRequest({"messages", "max_tokens"}, <<>>, -1, <<>>, TRUE) }

HandlerStatusCode_Always500(e) == 500

\* line 180
HandlerStatusCode(e) == IF e = "JSONDecodeError" THEN 400 ELSE 500

\* line 169: the exception raised by request.json() or by the translator,
\* "none" if there is none
SetupException(b) ==
    IF b.json = "malformed" THEN "JSONDecodeError"
    ELSE IF b.json = "not_object" THEN "TypeError"
    ELSE LET translated == prepare_openai_chat_request_body(b.value) IN
         IF translated.raised THEN translated.exc ELSE "none"

\* proxy_lmstudio_chat_completions: the StreamingResponse, or the
\* HTTPException of lines 179-183
proxy_lmstudio_chat_completions(b) ==
    LET e == SetupException(b) IN
    IF e = "none"
    THEN [status |-> 200, media_type |-> "text/event-stream"]
    ELSE [status |-> HandlerStatusCode(e),
          detail |-> <<"An error occurred during request processing:", e>>]

OpenStream_Eager == "open"

\* lines 171-175: httpx_client.stream(...) builds the context manager of the
\* backend request; nothing is sent before it is entered at line 120
OpenStream == "none"

\* POST /api/v0/chat/completions: on success the relay generator is created
\* and handed to the StreamingResponse, not yet started
ChatCompletions ==
    /\ pc = "idle"
    /\ "json" \in DOMAIN inbound_body
    /\ "none" \in DOMAIN response
    /\ response' = proxy_lmstudio_chat_completions(inbound_body)
    /\ IF SetupException(inbound_body) = "none"
       THEN /\ pc' = "start"
            /\ handle' = OpenStream
       ELSE UNCHANGED <<pc, handle>>
    /\ UNCHANGED <<status, lines, out, exc, failure>>
    /\ UNCHANGED <<tpc, original, message, lmstudio_request, result>>
    /\ UNCHANGED <<inbound_body, backend_reply, models_response, relays>>

HandlerIdle ==
    /\ RelayIdle("idle")
    /\ tpc = "idle"
    /\ original = NoValue
    /\ message = NoValue
    /\ lmstudio_request = NoValue
    /\ result = NoValue
    /\ response = NoValue
    /\ backend_reply = NoValue
    /\ models_response = NoValue
    /\ relays = <<>>

InitSetup ==
    /\ HandlerIdle
    /\ inbound_body \in BodiesOf(Requests)

NextSetup == ChatCompletions

\* one call of the handler, up to its return
SpecSetup == InitSetup /\ [][NextSetup]_vars

InitHandler ==
    /\ HandlerIdle
    /\ inbound_body \in BodiesOf(HandlerRequests)

NextHandler ==
    \/ ChatCompletions
    \/ Enter
    \/ EnterFails
    \/ RaiseForStatus
    \/ NextLine
    \/ YieldChunk
    \/ Pull
    \/ EndOfStream
    \/ StreamRaises
    \/ ClientDisconnect

\* one request: the handler, then the relay pulled by the server
SpecHandler == InitHandler /\ [][NextHandler]_vars

(* ------------------------- two requests in flight ---------------------- *)

\* lines a backend stream delivers to a relay in flight with another one
MaxRelayLines == 2

\* inbound requests of the two clients
InFlightRequests ==
    { MakeRequest({"model", "messages", "max_tokens", "stream"},
                  <<MakeMessage("user", TRUE, <<"Hi">>, FALSE, <<>>)>>,
                  256, <<>>, TRUE),
      MakeRequest({"model", "messages", "max_tokens", "stream"},
                  <<MakeMessage("system", TRUE, <<"Hi">>, FALSE, <<>>)>>,
                  -1, <<>>, TRUE) }

\* lines either backend stream may deliver
InFlightLines ==
    { <<"data:", " ", "[DONE]">>,
      <<"data:", " ", "{", "\"id\"", ":", "\"x\"", "}">>,
      <<"data:", " ", "1">> }

\* lines 169-176: what one request owns once its handler has returned: the
\* translated body inside its stream context, and the locals of its relay
\* generator, which has not started
NewRelay(request) ==
    [request |-> prepare_openai_chat_request_body(request).body,
     sent    |-> NoValue,
     pc      |-> "start",
     handle  |-> OpenStream,
     status  |-> 0,
     lines   |-> <<>>,
     out     |-> <<>>,
     exc     |-> "none",
     failure |-> 0]

\* lines 128-132 on the locals r of one relay
FailRelay(r, e) ==
    [r EXCEPT !.handle = Release(r.handle),
              !.exc = e,
              !.failure = StatusCodeFor(e, r.status),
              !.pc = "failed"]

\* line 120 on the locals r: the relay sends the body of its own context
EnterRelay(r) ==
    IF r.pc # "start" THEN {}
    ELSE {[r EXCEPT !.status = code, !.handle = "open",
                    !.sent = r.request, !.pc = "entered"] : code \in Statuses}
         \cup {FailRelay(r, "ConnectError")}

\* line 121
RaiseForStatusRelay(r) ==
    IF r.pc # "entered" THEN {}
    ELSE IF IsErrorStatus(r.status)
         THEN {FailRelay(r, "HTTPStatusError")}
         ELSE {[r EXCEPT !.pc = "reading"]}

\* line 122: the next line of its own backend stream, exhaustion (line 127)
\* or a stream error
ReadRelay(r) ==
    IF r.pc # "reading" THEN {}
    ELSE {[r EXCEPT !.lines = Append(r.lines, line), !.pc = "gotLine"] :
               line \in IF Len(r.lines) < MaxRelayLines
                        THEN InFlightLines ELSE {}}
         \cup {[r EXCEPT !.handle = Release(r.handle), !.pc = "done"]}
         \cup {FailRelay(r, "StreamError")}

\* lines 123-126
YieldRelay(r) ==
    IF r.pc # "gotLine" THEN {}
    ELSE LET rewritten == RewriteLine(r.lines[Len(r.lines)]) IN
         IF rewritten.raised
         THEN {FailRelay(r, rewritten.exc)}
         ELSE {[r EXCEPT !.out = Emit(r.out, rewritten.chunk),
                         !.pc = "yielded"]}

\* its consumer asks for the next chunk
PullRelay(r) ==
    IF r.pc # "yielded" THEN {} ELSE {[r EXCEPT !.pc = "reading"]}

\* its consumer goes away
DisconnectRelay(r) ==
    IF r.pc \notin {"start", "reading", "yielded"} THEN {}
    ELSE IF Caught("GeneratorExit")
         THEN {FailRelay(r, "GeneratorExit")}
         ELSE {[r EXCEPT !.handle = Release(r.handle), !.pc = "cancelled"]}

\* the steps one relay can take from r, from one suspension point to the
\* next
RelaySteps(r) ==
    EnterRelay(r) \cup RaiseForStatusRelay(r) \cup ReadRelay(r)
        \cup YieldRelay(r) \cup PullRelay(r) \cup DisconnectRelay(r)

Frame_Global(i) == 1

\* line 113: every call of the generator function has a frame of its own
\* for response_stream, line and processed_line, and line 176 hands each
\* response its own generator; the module keeps no per-request state
\* (lines 22-34)
Frame(i) == i

\* what relay i works on: its own resumption point and the locals of its
\* frame
Locals(rs, i) == [rs[Frame(i)] EXCEPT !.pc = rs[i].pc]

\* relay i suspends again: its resumption point, and its assignments in
\* its frame
Store(rs, i, r) ==
    [j \in DOMAIN rs |->
        IF j = i /\ j = Frame(i) THEN r
        ELSE IF j = i THEN [rs[j] EXCEPT !.pc = r.pc]
        ELSE IF j = Frame(i) THEN [r EXCEPT !.pc = rs[j].pc]
        ELSE rs[j]]

InitInFlight ==
    /\ RelayIdle("idle")
    /\ tpc = "idle"
    /\ original = NoValue
    /\ message = NoValue
    /\ lmstudio_request = NoValue
    /\ result = NoValue
    /\ inbound_body = NoValue
    /\ response = NoValue
    /\ backend_reply = NoValue
    /\ models_response = NoValue
    /\ relays \in [1..2 -> {NewRelay(request) : request \in InFlightRequests}]

\* the event loop resumes one of the relays
Resume(i) ==
    /\ \E r \in RelaySteps(Locals(relays, i)) : relays' = Store(relays, i, r)
    /\ UNCHANGED relayVars
    /\ UNCHANGED <<tpc, original, message, lmstudio_request, result>>
    /\ UNCHANGED <<inbound_body, response, backend_reply, models_response>>

NextInFlight == \E i \in DOMAIN relays : Resume(i)

SpecInFlight == InitInFlight /\ [][NextInFlight]_vars

(* ------------------------------ properties ----------------------------- *)

Ended == {"done", "failed", "cancelled"}

Payload(line) == Strip(Tail(line))

IsDoneLine(line) == StartsWithData(line) /\ Payload(line) = <<"[DONE]">>

IsObjectLine(line) ==
    /\ StartsWithData(line)
    /\ JsonLoads(Payload(line)).ok
    /\ JsonLoads(Payload(line)).val.t = "obj"

\* a `data:` line, not the sentinel, on which no fingerprint can be injected
CannotInject(line) ==
    StartsWithData(line) /\ ~IsDoneLine(line) /\ ~IsObjectLine(line)

\* C1: when a `data:` line with payload [DONE] is read, the relay emits
\* "data: [DONE]\n\n" for it, no backend line is read after it and no chunk
\* is emitted after it.
C1_DoneIsLast ==
    \A i \in 1..Len(lines) :
        IsDoneLine(lines[i]) =>
            /\ i = Len(lines)
            /\ pc # "gotLine" => (Len(out) = i /\ out[i] = DoneChunk)

\* C2: every `data:` line that is not the sentinel and on which the
\* fingerprint cannot be injected gets exactly one chunk, the line followed
\* by "\n\n", and the relay does not fail on it.
C2_LineNeverAborts ==
    \A i \in 1..Len(lines) :
        (CannotInject(lines[i]) /\ ~(i = Len(lines) /\ pc = "gotLine")) =>
            /\ Len(out) >= i
            /\ out[i] = lines[i] \o <<"\n", "\n">>
            /\ ~(pc = "failed" /\ Len(out) < Len(lines))

\* C3: a relay that has ended holds no open backend response handle, and
\* the handle is open for as long as the relay is still reading lines.
C3_HandleReleased ==
    /\ pc \in Ended => handle # "open"
    /\ handle = "closed" => pc \in Ended
    /\ pc \in {"entered", "reading", "gotLine", "yielded"} => handle = "open"

C3_Witness ==
    pc = "cancelled" /\ handle = "closed" /\ Len(out) >= 1

\* C4: an HTTP-error status yields no chunk and a failure carrying that
\* status; a backend stream error after k relayed lines yields a failure
\* with status 500 and the output is the rewrites of those k lines; after
\* the failure signal nothing more is emitted.
C4_FailureSemantics ==
    /\ [] /\ (IsErrorStatus(status) /\ pc \notin {"start", "entered"}) =>
                (pc = "failed" /\ exc = "HTTPStatusError"
                    /\ failure = status /\ out = <<>>)
          /\ exc = "StreamError" =>
                /\ pc = "failed"
                /\ failure = 500
                /\ Len(out) = Len(lines)
                /\ \A i \in 1..Len(lines) :
                      /\ ~RewriteLine(lines[i]).raised
                      /\ out[i] = RewriteLine(lines[i]).chunk
          /\ failure # 0 => pc = "failed"
    /\ [][failure # 0 => (out' = out /\ failure' = failure)]_vars

C4_Witness ==
    pc = "failed" /\ exc = "StreamError" /\ Len(out) = 2 /\ failure = 500

\* C5: the output is always the rewrites of the first lines read, one chunk
\* per line in the order read, at most one line is read and not yet emitted,
\* and a line is read only when every earlier line has been emitted.
C5_Ordering ==
    /\ [] /\ Len(out) <= Len(lines)
          /\ Len(lines) <= Len(out) + 1
          /\ \A i \in 1..Len(out) :
                /\ ~RewriteLine(lines[i]).raised
                /\ out[i] = RewriteLine(lines[i]).chunk
    /\ [][Len(lines') > Len(lines) => Len(out) = Len(lines)]_vars

C5_Witness ==
    /\ Len(lines) = 3
    /\ Len(out) = 2
    /\ out[1] # out[2]
    /\ pc = "gotLine"

FingerprintKey == "\"system_fingerprint\""

\* C6: the chunk of a line without the `data:` prefix is the line plus one
\* "\n"; the chunk of a `data:` line with a JSON object payload is
\* "data: <json>\n\n" where <json> is an object whose system_fingerprint is
\* proxy_fingerprint and whose other top-level fields are those of the
\* payload, with the same values.
C6_RewriteResult ==
    \A i \in 1..Len(out) :
        LET line == lines[i]
            chunk == out[i]
            n == Len(chunk)
        IN  /\ ~StartsWithData(line) => chunk = line \o <<"\n">>
            /\ IsObjectLine(line) =>
                 /\ n >= 4
                 /\ SubSeq(chunk, 1, 2) = <<"data:", " ">>
                 /\ SubSeq(chunk, n - 1, n) = <<"\n", "\n">>
                 /\ LET sent == JsonLoads(Payload(line)).val.members
                        got == JsonLoads(SubSeq(chunk, 3, n - 2))
                    IN  /\ got.ok
                        /\ got.val.t = "obj"
                        /\ HasKey(got.val.members, FingerprintKey)
                        /\ GetItem(got.val.members, FingerprintKey)
                               = ProxyFingerprint
                        /\ \A k \in StringTokens \ {FingerprintKey} :
                              /\ HasKey(got.val.members, k) <=> HasKey(sent, k)
                              /\ HasKey(sent, k) =>
                                   GetItem(got.val.members, k)
                                       = GetItem(sent, k)

C6_Witness ==
    \E i \in 1..Len(out) :
        /\ IsObjectLine(lines[i])
        /\ HasKey(JsonLoads(Payload(lines[i])).val.members, FingerprintKey)
        /\ HasKey(JsonLoads(Payload(lines[i])).val.members, "\"id\"")

\* C7: the message returned by tidy_message carries tool_calls only if its
\* role is assistant and the sequence is non-empty; an assistant message
\* with non-empty tool_calls keeps the field with the same value.
C7_ToolCallsInvariant ==
    tpc = "return" =>
        /\ "tool_calls" \in DOMAIN message =>
              (message["role"] = "assistant" /\ message["tool_calls"] # <<>>)
        /\ ("tool_calls" \in DOMAIN original
                /\ original["role"] = "assistant"
                /\ original["tool_calls"] # <<>>) =>
              /\ "tool_calls" \in DOMAIN message
              /\ message["tool_calls"] = original["tool_calls"]

C7_Witness ==
    /\ tpc = "return"
    /\ original["role"] = "user"
    /\ "tool_calls" \in DOMAIN original
    /\ original["tool_calls"] # <<>>
    /\ "tool_calls" \notin DOMAIN message
    /\ message["role"] = "system"

Normalized(messages) == [i \in 1..Len(messages) |-> tidy_message(messages[i])]

AllSystem(messages) == \A i \in 1..Len(messages) : messages[i]["role"] = "system"

\* C8: with P the inbound messages normalized in order, the outbound
\* messages are P followed by one {role: user, content: "Please continue."}
\* if P is non-empty and all of P has role system, and exactly P otherwise.
C8_PaddingRule ==
    (tpc = "return" /\ ~result.raised) =>
        LET P == Normalized(Get(lmstudio_request, "messages", <<>>))
            sent == result.body["messages"]
        IN  IF P # <<>> /\ AllSystem(P)
            THEN /\ Len(sent) = Len(P) + 1
                 /\ SubSeq(sent, 1, Len(P)) = P
                 /\ sent[Len(sent)]
                        = [role |-> "user", content |-> PleaseContinue]
            ELSE sent = P

C8_Witness ==
    /\ tpc = "return"
    /\ ~result.raised
    /\ Len(result.body["messages"]) = 3
    /\ lmstudio_request["messages"][2]["role"] = "user"

\* C9: an inbound request without max_tokens that has model and messages is
\* translated to a body, and the body has no max_tokens.
C9_AbsentMaxTokens ==
    (tpc = "return"
        /\ "max_tokens" \notin DOMAIN lmstudio_request
        /\ {"model", "messages"} \subseteq DOMAIN lmstudio_request) =>
        /\ ~result.raised
        /\ "max_tokens" \notin DOMAIN result.body

\* C10: for an inbound request with model and max_tokens the body has the
\* keys model, stream, messages, tools iff the inbound tools are present
\* and non-empty, max_tokens iff the inbound value is not -1; model, tools
\* and max_tokens carry the inbound values, stream the inbound value or
\* false; no other inbound field is in the body.
C10_FieldPresence ==
    (tpc = "return"
        /\ {"model", "max_tokens"} \subseteq DOMAIN lmstudio_request) =>
        /\ ~result.raised
        /\ LET req == lmstudio_request
               body == result.body
               hasTools == "tools" \in DOMAIN req /\ req["tools"] # <<>>
               hasMax == req["max_tokens"] # -1
           IN  /\ DOMAIN body = {"model", "stream", "messages"}
                      \cup (IF hasTools THEN {"tools"} ELSE {})
                      \cup (IF hasMax THEN {"max_tokens"} ELSE {})
               /\ body["model"] = req["model"]
               /\ hasTools => body["tools"] = req["tools"]
               /\ hasMax => body["max_tokens"] = req["max_tokens"]
               /\ body["stream"] = (IF "stream" \in DOMAIN req
                                    THEN req["stream"] ELSE FALSE)

C10_Witness ==
    /\ tpc = "return"
    /\ ~result.raised
    /\ "temperature" \in DOMAIN lmstudio_request
    /\ "tools" \in DOMAIN lmstudio_request
    /\ lmstudio_request["tools"] = <<>>
    /\ lmstudio_request["max_tokens"] = -1
    /\ DOMAIN result.body = {"model", "stream", "messages"}

\* C11: when the backend is unreachable, returns malformed data or reports
\* an empty or missing model collection, the listing fails with status 502
\* and a detail string; a success response never has an empty data list.
C11_ListingFailureClass ==
    tpc = "return" =>
        /\ (\/ ~backend_reply.reachable
            \/ (~IsErrorStatus(backend_reply.code)
                  /\ backend_reply.json = "malformed")
            \/ (~IsErrorStatus(backend_reply.code)
                  /\ backend_reply.json = "object"
                  /\ (~backend_reply.has_data \/ backend_reply.data = <<>>)))
              => (/\ models_response.status = 502
                  /\ "detail" \in DOMAIN models_response
                  /\ models_response.detail # <<>>)
        /\ models_response.status = 200 =>
              models_response.content.data # <<>>

\* C15: for a non-empty backend collection the listing returns
\* {object: "list", data: D} with one descriptor per backend entry in the
\* same order; id is the backend id or the default alias, publisher the
\* backend owned_by or the fallback string, the other fields are fixed.
C15_ListingSuccess ==
    (tpc = "return"
        /\ backend_reply.reachable
        /\ ~IsErrorStatus(backend_reply.code)
        /\ backend_reply.json = "object"
        /\ backend_reply.has_data
        /\ backend_reply.data # <<>>) =>
        /\ models_response.status = 200
        /\ DOMAIN models_response.content = {"object", "data"}
        /\ models_response.content.object = "list"
        /\ Len(models_response.content.data) = Len(backend_reply.data)
        /\ \A i \in 1..Len(backend_reply.data) :
              LET entry == backend_reply.data[i]
                  d == models_response.content.data[i]
              IN  /\ DOMAIN d = {"id", "object", "type", "publisher", "arch",
                                 "compatibility_type", "quantization",
                                 "state", "max_context_length"}
                  /\ d.id = (IF "id" \in DOMAIN entry THEN entry["id"]
                             ELSE "groq-llama4-scout")
                  /\ d.publisher = (IF "owned_by" \in DOMAIN entry
                                    THEN entry["owned_by"]
                                    ELSE "litellm-proxied")
                  /\ d.object = "model"
                  /\ d.type = "chat"
                  /\ d.arch = "unknown"
                  /\ d.compatibility_type = "openai"
                  /\ d.quantization = "unknown"
                  /\ d.state = "loaded"
                  /\ d.max_context_length = 32768

C15_Witness ==
    /\ tpc = "return"
    /\ models_response.status = 200
    /\ Len(backend_reply.data) = 2
    /\ "id" \notin DOMAIN backend_reply.data[1]
    /\ "owned_by" \notin DOMAIN backend_reply.data[1]
    /\ DOMAIN backend_reply.data[2] = {"id", "owned_by", "created"}

\* C13: a call of tidy_message leaves its argument as it was, and a call of
\* _prepare_openai_chat_request_body leaves the inbound request as it was
\* (same messages, same length, same fields of every message).
C13_InputNotMutated ==
    [][(tpc = "call" /\ tpc' = "return") =>
          (original' = original /\ lmstudio_request' = lmstudio_request)]_vars

C13_Witness ==
    /\ tpc = "return"
    /\ "raised" \in DOMAIN result
    /\ ~result.raised
    /\ "messages" \in DOMAIN lmstudio_request
    /\ Len(lmstudio_request["messages"]) = 2
    /\ Len(result.body["messages"]) = 3
    /\ result.body["messages"][1] # lmstudio_request["messages"][1]
    /\ result.body["messages"][2]["role"] # lmstudio_request["messages"][2]["role"]

ContentsWithMarker == {Marker, <<"Note:">> \o Marker \o <<"Go">>}

\* C14: tidy_message returns role system if the input role is user and the
\* content contains the marker, the input role in every other case, and
\* never changes the content.
C14_RoleRule ==
    tpc = "return" =>
        /\ message["role"] =
              (IF original["role"] = "user" /\ "content" \in DOMAIN original
                    /\ original["content"] \in ContentsWithMarker
               THEN "system"
               ELSE original["role"])
        /\ "content" \in DOMAIN message <=> "content" \in DOMAIN original
        /\ "content" \in DOMAIN original =>
              message["content"] = original["content"]

C14_Witness ==
    /\ tpc = "return"
    /\ original["role"] = "user"
    /\ "content" \in DOMAIN original
    /\ original["content"] = Marker
    /\ "tool_calls" \notin DOMAIN original
    /\ message["role"] = "system"

\* C19: for a request that translates, with n inbound messages, the outbound
\* list has length n or n + 1, its first n entries are the normalized
\* inbound messages in order, it is empty iff n = 0, and a non-empty
\* outbound list has a message whose role is not system.
C19_OutboundMessages ==
    (tpc = "return" /\ ~result.raised) =>
        LET inbound == Get(lmstudio_request, "messages", <<>>)
            n == Len(inbound)
            sent == result.body["messages"]
        IN  /\ Len(sent) \in {n, n + 1}
            /\ \A i \in 1..n : sent[i] = tidy_message(inbound[i])
            /\ sent = <<>> <=> n = 0
            /\ sent # <<>> =>
                  \E i \in 1..Len(sent) : sent[i]["role"] # "system"

C19_Witness ==
    /\ tpc = "return"
    /\ ~result.raised
    /\ "messages" \in DOMAIN lmstudio_request
    /\ Len(lmstudio_request["messages"]) = 1
    /\ lmstudio_request["messages"][1]["role"] = "user"
    /\ Len(result.body["messages"]) = 2

\* C16: a client disconnect is not caught as a failure; the relay it
\* cancels signals no failure, holds no open handle, reads no further
\* backend line and emits no further chunk.
C16_Cancellation ==
    /\ [] /\ exc # "GeneratorExit"
          /\ pc = "cancelled" =>
                (failure = 0 /\ exc = "none" /\ handle # "open")
    /\ [][pc = "cancelled" =>
            (pc' = "cancelled" /\ lines' = lines /\ out' = out
                /\ failure' = 0)]_vars

C16_Witness ==
    /\ pc = "cancelled"
    /\ Len(lines) = 2
    /\ Len(out) = 2
    /\ Len(lines) < MaxLines
    /\ failure = 0

\* C18: with a success status, a finite line sequence that raises nothing
\* and a consumer that keeps pulling, the relay ends without a failure, and
\* its output ends with the input or with the [DONE] chunk: no line is read
\* and no chunk emitted after the sentinel, and the relay does not end
\* before the input is exhausted or the sentinel observed.
C18_Termination ==
    /\ status = 200 => (pc # "failed" /\ failure = 0)
    /\ \A i \in 1..Len(lines) :
          IsDoneLine(lines[i]) => (i = Len(lines) /\ Len(out) <= i)
    /\ (status = 200 /\ pc \in Ended) =>
          (pc = "done" /\ Len(out) = Len(lines))

BackendFailures == {"ConnectError", "HTTPStatusError", "StreamError"}

\* C20: the handler returns without contacting the backend: until the relay
\* is pulled no backend response is held and no status known; a handler
\* that answers 400 or 500 never starts a relay; a backend failure occurs
\* only after the handler returned its streaming response and is signalled
\* by the relay.
C20_BackendAfterReturn ==
    /\ pc \in {"idle", "start"} => (handle = "none" /\ status = 0)
    /\ (handle # "none" \/ exc # "none") =>
          ("status" \in DOMAIN response /\ response.status = 200)
    /\ ("status" \in DOMAIN response /\ response.status # 200) =>
          (pc = "idle" /\ failure = 0 /\ out = <<>>)
    /\ exc \in BackendFailures =>
          (pc = "failed" /\ failure # 0 /\ response.status = 200)

C20_Witness ==
    /\ "status" \in DOMAIN response
    /\ response.status = 200
    /\ pc = "failed"
    /\ exc = "HTTPStatusError"
    /\ failure = 503

RECURSIVE AloneOut(_)
\* the chunks a relay running alone has yielded once it has handled the
\* lines ls
AloneOut(ls) ==
    IF ls = <<>> THEN <<>>
    ELSE LET rewritten == RewriteLine(ls[Len(ls)])
             before == AloneOut(SubSeq(ls, 1, Len(ls) - 1))
         IN  IF rewritten.raised THEN before
             ELSE Append(before, rewritten.chunk)

\* r is a state of a relay running alone on its own body, status and lines
AsAlone(r) ==
    LET handled == IF r.pc = "gotLine"
                   THEN SubSeq(r.lines, 1, Len(r.lines) - 1) ELSE r.lines
        raises == r.lines # <<>> /\ RewriteLine(r.lines[Len(r.lines)]).raised
    IN  /\ r.out = AloneOut(handled)
        /\ r.sent = IF r.status = 0 THEN NoValue ELSE r.request
        /\ r.handle = IF r.status = 0 THEN "none"
                      ELSE IF r.pc \in Ended THEN "closed" ELSE "open"
        /\ (r.failure # 0) = (r.pc = "failed")
        /\ r.pc = "failed" =>
              r.failure = IF r.exc = "HTTPStatusError" THEN r.status ELSE 500
        /\ raises => (r.pc \in {"gotLine", "failed"}
                        /\ (r.pc = "failed" =>
                              r.exc = RewriteLine(r.lines[Len(r.lines)]).exc))
        /\ r.exc = "HTTPStatusError" => IsErrorStatus(r.status)

\* C17: with two relays interleaving at their suspension points, each
\* request's chunks and outcome depend only on its own body and its own
\* backend lines: every state of a relay is a state of that relay running
\* alone, every step is a step of one relay alone and leaves the other
\* request's body, lines, handle and chunks as they are.
C17_Independence ==
    /\ [](\A i \in DOMAIN relays : AsAlone(relays[i]))
    /\ [][\E i \in DOMAIN relays :
            /\ relays'[i] \in RelaySteps(relays[i])
            /\ \A j \in DOMAIN relays \ {i} : relays'[j] = relays[j]]_vars

C17_Witness ==
    /\ DOMAIN relays = {1, 2}
    /\ relays[1].request # relays[2].request
    /\ relays[1].pc = "yielded"
    /\ Len(relays[1].out) = 2
    /\ relays[2].pc = "failed"
    /\ relays[2].exc = "TypeError"
    /\ Len(relays[2].lines) = 2
    /\ Len(relays[2].out) = 1

====
